---- MODULE Spec2Model ----
(***************************************************************************)
(* A model of the G-code interpreter of cnc.py: the line classifier        *)
(* (_non_empty_lines), the dispatch loop of MachineClient.parse_gcode, the *)
(* argument extractor (extract_args) and the command handlers.             *)
(*                                                                         *)
(* Python strings are sequences of one-character strings, so that          *)
(* startswith, slicing, split, strip and the regular expressions are       *)
(* computed character by character.  A float is the exact decimal          *)
(* [m, e] standing for m / 10^e with no trailing zero digit in m (e > 0),  *)
(* so "10.000", "10.0" and "10" all denote the same value.                 *)
(***************************************************************************)
EXTENDS Integers, Sequences, FiniteSets, TLC

(***************************************************************************)
(* Bounds of the input space.                                              *)
(***************************************************************************)
MaxLines == 2
MaxToks == 2

(***************************************************************************)
(* Characters and string primitives.                                       *)
(***************************************************************************)
Digits == {"0", "1", "2", "3", "4", "5", "6", "7", "8", "9"}

IsDigit(c) == c \in Digits

\* str.isspace() / the regex class \s, on the characters of the model
IsSpace(c) == c \in {" ", "\t", "\n", "\r"}

DigitVal(c) ==
  CASE c = "0" -> 0 [] c = "1" -> 1 [] c = "2" -> 2 [] c = "3" -> 3
    [] c = "4" -> 4 [] c = "5" -> 5 [] c = "6" -> 6 [] c = "7" -> 7
    [] c = "8" -> 8 [] c = "9" -> 9

AllDigits(s) == \A k \in 1..Len(s) : IsDigit(s[k])

\* s[n:] for a 0-based n
Slice(s, n) == IF n >= Len(s) THEN << >> ELSE SubSeq(s, n + 1, Len(s))

\* s.startswith(c) for a one-character c
startswith(s, c) == Len(s) >= 1 /\ s[1] = c

RECURSIVE lstrip(_)
lstrip(s) == IF s # << >> /\ IsSpace(Head(s)) THEN lstrip(Tail(s)) ELSE s

RECURSIVE rstrip(_)
rstrip(s) ==
  IF s # << >> /\ IsSpace(s[Len(s)]) THEN rstrip(SubSeq(s, 1, Len(s) - 1))
  ELSE s

\* str.strip()
strip(s) == rstrip(lstrip(s))

\* str.split(" "): every single space separates two (possibly empty) parts
RECURSIVE split(_)
split(s) ==
  IF \E k \in 1..Len(s) : s[k] = " "
  THEN LET k == CHOOSE j \in 1..Len(s) :
                  s[j] = " " /\ \A h \in 1..(j - 1) : s[h] # " "
       IN  <<SubSeq(s, 1, k - 1)>> \o split(SubSeq(s, k + 1, Len(s)))
  ELSE <<s>>

\* str.upper() on the letters that occur
UpperChar(c) ==
  CASE c = "g" -> "G" [] c = "m" -> "M" [] c = "x" -> "X"
    [] c = "y" -> "Y" [] c = "z" -> "Z" [] OTHER -> c

upper(s) == [k \in 1..Len(s) |-> UpperChar(s[k])]

(***************************************************************************)
(* The regular expressions, each used through re.match.                    *)
(***************************************************************************)
\* ^\(.*\)$
_COMMENT_PATTERN(s) == Len(s) >= 2 /\ s[1] = "(" /\ s[Len(s)] = ")"

\* Faulty variant: ^O[0-9]+$, any number of digits
_PROGRAM_NUM_PATTERN_AnyLength(s) ==
  Len(s) >= 2 /\ s[1] = "O" /\ \A k \in 2..Len(s) : IsDigit(s[k])

\* ^O[0-9]{4}$
_PROGRAM_NUM_PATTERN(s) ==
  Len(s) = 5 /\ s[1] = "O" /\ \A k \in 2..5 : IsDigit(s[k])

\* Faulty variant: ^N[0-9]+\s[GMSTF].*$, a command letter must follow
_CMD_PATTERN_WithCode(s) ==
  /\ Len(s) >= 4
  /\ s[1] = "N"
  /\ \E k \in 3..(Len(s) - 1) :
       /\ IsSpace(s[k])
       /\ \A h \in 2..(k - 1) : IsDigit(s[h])
       /\ s[k + 1] \in {"G", "M", "S", "T", "F"}

\* Faulty variant: ^(N[0-9]+\s)?.+$, the line number is optional
_CMD_PATTERN_OptionalN(s) ==
  \/ Len(s) >= 1 /\ s[1] # "N"
  \/ /\ Len(s) >= 3
     /\ s[1] = "N"
     /\ \E k \in 3..Len(s) :
          IsSpace(s[k]) /\ \A h \in 2..(k - 1) : IsDigit(s[h])

\* ^N[0-9]+\s.*$
_CMD_PATTERN(s) ==
  /\ Len(s) >= 3
  /\ s[1] = "N"
  /\ \E k \in 3..Len(s) : IsSpace(s[k]) /\ \A h \in 2..(k - 1) : IsDigit(s[h])

\* Faulty variant: ^N[0-9]+|^G[0-9]+|^M[0-9]+, S and F forgotten
_CMD_START_PATTERN_NoSF(s) ==
  Len(s) >= 2 /\ s[1] \in {"N", "G", "M"} /\ IsDigit(s[2])

\* ^N[0-9]+|^G[0-9]+|^M[0-9]+|^S[0-9]+|^F[0-9]+
_CMD_START_PATTERN(s) ==
  Len(s) >= 2 /\ s[1] \in {"N", "G", "M", "S", "F"} /\ IsDigit(s[2])

_is_comment(line) == _COMMENT_PATTERN(line)

_is_program_number(line) == _PROGRAM_NUM_PATTERN(line)

(***************************************************************************)
(* int() and float() on the characters that occur: an optional sign,       *)
(* digits, and for float() one optional decimal point.  A failed           *)
(* conversion (ValueError) is the value with ok = FALSE.                   *)
(***************************************************************************)
RECURSIVE DigitsVal(_)
DigitsVal(s) ==
  IF s = << >> THEN 0
  ELSE 10 * DigitsVal(SubSeq(s, 1, Len(s) - 1)) + DigitVal(s[Len(s)])

RECURSIVE Pow10(_)
Pow10(n) == IF n = 0 THEN 1 ELSE 10 * Pow10(n - 1)

RECURSIVE Dec(_, _)
Dec(m, e) ==
  IF e > 0 /\ m % 10 = 0 THEN Dec(m \div 10, e - 1) ELSE [m |-> m, e |-> e]

Unsigned(s) == IF s # << >> /\ s[1] \in {"-", "+"} THEN Tail(s) ELSE s

Sign(s) == IF s # << >> /\ s[1] = "-" THEN -1 ELSE 1

ValueError == [ok |-> FALSE, v |-> 0]

\* int(s)
int(s) ==
  LET u == Unsigned(s)
  IN  IF u # << >> /\ AllDigits(u)
      THEN [ok |-> TRUE, v |-> Sign(s) * DigitsVal(u)]
      ELSE ValueError

\* float(s)
float(s) ==
  LET u == Unsigned(s)
      dots == {k \in 1..Len(u) : u[k] = "."}
  IN  IF dots = {}
      THEN IF u # << >> /\ AllDigits(u)
           THEN [ok |-> TRUE, v |-> Dec(Sign(s) * DigitsVal(u), 0)]
           ELSE ValueError
      ELSE LET d == CHOOSE k \in dots : \A h \in dots : k <= h
               ip == SubSeq(u, 1, d - 1)
               fp == SubSeq(u, d + 1, Len(u))
           IN  IF AllDigits(ip) /\ AllDigits(fp) /\ Len(ip) + Len(fp) >= 1
               THEN [ok |-> TRUE,
                     v |-> Dec(Sign(s) * (DigitsVal(ip) * Pow10(Len(fp))
                                          + DigitsVal(fp)), Len(fp))]
               ELSE ValueError

Zero == Dec(0, 0)

(***************************************************************************)
(* Errors, actuator calls and handler results.                             *)
(***************************************************************************)
\* An exception: its Python type, the fixed text of its message, and the
\* line numbers and raw tokens the message interpolates, in order.
Error(exc, msg, lns, cites) ==
  [exc |-> exc, msg |-> msg, lns |-> lns, cites |-> cites]

NoErr == Error("None", "", << >>, << >>)

\* A call of one of MachineClient's actuator methods
Call(op, args) == [op |-> op, args |-> args]

\* What a handler did: the actuator calls it made, the notifications it
\* printed, and the exception it raised (NoErr when it returned).
Result(calls, notices, err) ==
  [calls |-> calls, notices |-> notices, err |-> err]

home == Result(<<Call("home", << >>)>>, << >>, NoErr)

move(x, y, z) == Result(<<Call("move", <<x, y, z>>)>>, << >>, NoErr)

move_x(value) == Result(<<Call("move_x", <<value>>)>>, << >>, NoErr)

move_y(value) == Result(<<Call("move_y", <<value>>)>>, << >>, NoErr)

move_z(value) == Result(<<Call("move_z", <<value>>)>>, << >>, NoErr)

set_feed_rate(value) ==
  Result(<<Call("set_feed_rate", <<value>>)>>, << >>, NoErr)

set_spindle_speed(value) ==
  Result(<<Call("set_spindle_speed", <<value>>)>>, << >>, NoErr)

change_tool(tool_name) ==
  Result(<<Call("change_tool", <<tool_name>>)>>, << >>, NoErr)

coolant_off == Result(<<Call("coolant_off", << >>)>>, << >>, NoErr)

Notify(text) == Result(<< >>, <<text>>, NoErr)

Raise(err) == Result(<< >>, << >>, err)

(***************************************************************************)
(* The command handlers.                                                   *)
(***************************************************************************)
_parse_tool(gcode, ln, args) ==
  IF ~(Len(gcode) > 1)
  THEN Raise(Error("AssertionError",
                   "Expected a gcode with more than 1 character",
                   << >>, << >>))
  ELSE change_tool(Slice(gcode, 1))

_parse_feedrate(gcode, ln, args) ==
  IF ~(Len(gcode) > 1)
  THEN Raise(Error("AssertionError",
                   "Excepted a gcode with more than 1 character",
                   << >>, << >>))
  ELSE LET val == float(Slice(gcode, 1))
       IN  IF val.ok THEN set_feed_rate(val.v)
           ELSE Raise(Error("ValueError", "Could not parse code",
                            <<ln>>, <<gcode>>))

_parse_speed(gcode, ln, args) ==
  IF ~(Len(gcode) > 1)
  THEN Raise(Error("AssertionError",
                   "Expected a gcode with more than 1 character",
                   << >>, << >>))
  ELSE LET speed == int(Slice(gcode, 1))
       IN  IF speed.ok THEN set_spindle_speed(speed.v)
           ELSE Raise(Error("ValueError", "Could not parse command",
                            <<ln>>, <<gcode>>))

\* The for loop of the general branch of _parse_move, from argument k on:
\* the coordinates after the loop, or the exception that left it.
RECURSIVE MoveLoop(_, _, _, _, _, _, _)
MoveLoop(gcode, ln, args, k, x, y, z) ==
  IF k > Len(args) THEN [err |-> NoErr, x |-> x, y |-> y, z |-> z]
  ELSE LET arg == args[k]
           val == float(Slice(arg, 1))
           failed == [err |-> Error("ValueError", "Could not parse argument",
                                    <<ln>>, <<arg, gcode>>),
                      x |-> x, y |-> y, z |-> z]
       IN  IF startswith(arg, "X")
           THEN IF val.ok THEN MoveLoop(gcode, ln, args, k + 1, val.v, y, z)
                ELSE failed
           ELSE IF startswith(arg, "Y")
           THEN IF val.ok THEN MoveLoop(gcode, ln, args, k + 1, x, val.v, z)
                ELSE failed
           ELSE IF startswith(arg, "Z")
           THEN IF val.ok THEN MoveLoop(gcode, ln, args, k + 1, x, y, val.v)
                ELSE failed
           ELSE [err |-> Error("RuntimeError", "Unknown parameter",
                               <<ln>>, <<args[1], gcode>>),
                 x |-> x, y |-> y, z |-> z]

\* Faulty variant: the move is issued although the loop raised
GeneralMove_ThenRaise(gcode, ln, args) ==
  LET r == MoveLoop(gcode, ln, args, 1, Zero, Zero, Zero)
  IN  Result(<<Call("move", <<r.x, r.y, r.z>>)>>, << >>, r.err)

\* Faulty variant: the coordinates are passed in the wrong order
GeneralMove_Swapped(gcode, ln, args) ==
  LET r == MoveLoop(gcode, ln, args, 1, Zero, Zero, Zero)
  IN  IF r.err # NoErr THEN Raise(r.err) ELSE move(r.y, r.x, r.z)

\* The general branch of _parse_move: otherwise just use the general move
\* function
GeneralMove(gcode, ln, args) ==
  LET r == MoveLoop(gcode, ln, args, 1, Zero, Zero, Zero)
  IN  IF r.err # NoErr THEN Raise(r.err) ELSE move(r.x, r.y, r.z)

\* Faulty variant: a single argument takes the general branch too
SingleMove_General(gcode, ln, args) ==
  LET r == MoveLoop(gcode, ln, args, 1, Zero, Zero, Zero)
  IN  IF r.err # NoErr THEN Raise(r.err) ELSE move(r.x, r.y, r.z)

\* The branch of _parse_move for one argument: only one argument, use the
\* specific move_x/y/z function
SingleMove(gcode, ln, args) ==
  LET val == float(Slice(args[1], 1))
  IN  IF ~val.ok
      THEN Raise(Error("ValueError", "Could not parse argument",
                       <<ln>>, <<args[1], gcode>>))
      ELSE IF startswith(args[1], "X") THEN move_x(val.v)
      ELSE IF startswith(args[1], "Y") THEN move_y(val.v)
      ELSE IF startswith(args[1], "Z") THEN move_z(val.v)
      ELSE Raise(Error("RuntimeError", "Unknown parameter",
                       <<ln>>, <<args[1], gcode>>))

\* Faulty variant: no argument means rapid positioning for G01 too
_parse_move_AnyRapid(gcode, ln, args) ==
  IF Len(args) = 0
  THEN Notify("Set rapid positioning")
  ELSE IF Len(args) = 1
  THEN SingleMove(gcode, ln, args)
  ELSE GeneralMove(gcode, ln, args)

_parse_move(gcode, ln, args) ==
  IF upper(gcode) = <<"G", "0", "0">> /\ Len(args) = 0
  THEN Notify("Set rapid positioning")
  ELSE IF Len(args) = 1
  THEN SingleMove(gcode, ln, args)
  ELSE GeneralMove(gcode, ln, args)

(***************************************************************************)
(* The command registry.                                                   *)
(***************************************************************************)
Cmd(n_args, fn) == [n_args |-> n_args, fn |-> fn]

\* A registry entry's callable: a method, or a lambda with its effect
Fn(h, text) == [h |-> h, text |-> text]

_KNOWN_COMMANDS ==
     (<<"G", "0", "0">> :> Cmd(3, Fn("_parse_move", "")))
  @@ (<<"G", "0", "1">> :> Cmd(3, Fn("_parse_move", "")))
  @@ (<<"G", "1", "7">> :> Cmd(0, Fn("notify", "Select XY plane")))
  @@ (<<"G", "2", "1">> :> Cmd(0, Fn("notify", "Set programming in inches")))
  @@ (<<"G", "2", "8">> :> Cmd(3, Fn("home", "")))
  @@ (<<"G", "4", "0">> :>
        Cmd(0, Fn("notify", "Set tool radius compensation off")))
  @@ (<<"G", "4", "9">> :>
        Cmd(0, Fn("notify", "Cancel tool length offset compensation")))
  @@ (<<"G", "5", "4">> :> Cmd(0, Fn("none", "")))
  @@ (<<"G", "8", "0">> :> Cmd(0, Fn("notify", "Cancel canned cycle")))
  @@ (<<"G", "9", "0">> :> Cmd(0, Fn("none", "")))
  @@ (<<"G", "9", "1">> :> Cmd(0, Fn("none", "")))
  @@ (<<"G", "9", "4">> :> Cmd(0, Fn("notify", "Set feedrate in per minutes")))
  @@ (<<"M", "0", "3">> :> Cmd(0, Fn("none", "")))
  @@ (<<"M", "0", "5">> :> Cmd(0, Fn("none", "")))
  @@ (<<"M", "0", "6">> :> Cmd(0, Fn("_parse_tool", "")))
  @@ (<<"M", "0", "9">> :> Cmd(0, Fn("coolant_off", "")))
  @@ (<<"M", "3", "0">> :> Cmd(0, Fn("none", "")))
  @@ (<<"T">> :> Cmd(1, Fn("_parse_tool", "")))
  @@ (<<"S">> :> Cmd(0, Fn("_parse_speed", "")))
  @@ (<<"F">> :> Cmd(0, Fn("_parse_feedrate", "")))

\* cmd.fn(next_part, ln, *args)
Invoke(fn, gcode, ln, args) ==
  CASE fn.h = "_parse_move" -> _parse_move(gcode, ln, args)
    [] fn.h = "_parse_tool" -> _parse_tool(gcode, ln, args)
    [] fn.h = "_parse_speed" -> _parse_speed(gcode, ln, args)
    [] fn.h = "_parse_feedrate" -> _parse_feedrate(gcode, ln, args)
    [] fn.h = "home" -> home
    [] fn.h = "coolant_off" -> coolant_off
    [] fn.h = "notify" -> Notify(fn.text)
    [] fn.h = "none" -> Result(<< >>, << >>, NoErr)

(***************************************************************************)
(* Argument extraction and key resolution.                                 *)
(***************************************************************************)
Min(a, b) == IF a <= b THEN a ELSE b

\* Faulty variant: the loop stops one index early, range(max_idx - 1)
RECURSIVE ExtractFrom_Short(_, _, _)
ExtractFrom_Short(parts, j, max_idx) ==
  IF j >= max_idx - 1 THEN << >>
  ELSE IF _CMD_START_PATTERN(parts[j + 1]) THEN << >>
  ELSE <<parts[j + 1]>> \o ExtractFrom_Short(parts, j + 1, max_idx)

\* The for loop of extract_args, from index j (0-based) on
RECURSIVE ExtractFrom(_, _, _)
ExtractFrom(parts, j, max_idx) ==
  IF j >= max_idx THEN << >>
  ELSE IF _CMD_START_PATTERN(parts[j + 1]) THEN << >>
  ELSE <<parts[j + 1]>> \o ExtractFrom(parts, j + 1, max_idx)

\* Faulty variant: max_n_args is not applied, only the list's end stops
extract_args_NoCap(parts, max_n_args) == ExtractFrom(parts, 0, Len(parts))

extract_args(parts, max_n_args) ==
  ExtractFrom(parts, 0, Min(Len(parts), max_n_args))

\* The key None of parse_gcode
None == <<"None">>

\* Faulty variant: the whole token is the key for S, T and F too
KeyOf_WholeToken(next_part) ==
  IF \/ startswith(next_part, "G") \/ startswith(next_part, "M")
     \/ startswith(next_part, "S") \/ startswith(next_part, "T")
     \/ startswith(next_part, "F")
  THEN next_part
  ELSE None

\* The key parse_gcode looks a token up under
KeyOf(next_part) ==
  IF startswith(next_part, "G") \/ startswith(next_part, "M") THEN next_part
  ELSE IF \/ startswith(next_part, "S")
          \/ startswith(next_part, "T")
          \/ startswith(next_part, "F")
  THEN <<next_part[1]>>
  ELSE None

(***************************************************************************)
(* The line classifier.                                                    *)
(***************************************************************************)
\* The condition under which _non_empty_lines yields a stripped line
Yielded(stripped_line) ==
  /\ Len(stripped_line) # 0
  /\ ~_is_comment(stripped_line)
  /\ ~_is_program_number(stripped_line)
  /\ stripped_line # <<"%">>

(***************************************************************************)
(* The inputs: files of raw lines.                                         *)
(***************************************************************************)
RECURSIVE Join(_)
Join(toks) ==
  IF Len(toks) = 0 THEN << >>
  ELSE IF Len(toks) = 1 THEN toks[1]
  ELSE toks[1] \o <<" ">> \o Join(Tail(toks))

\* A raw line as readlines() returns it
Raw(toks) == Join(toks) \o <<"\n">>

RECURSIVE SeqsUpTo(_, _)
SeqsUpTo(S, n) ==
  IF n = 0 THEN {<< >>}
  ELSE LET shorter == SeqsUpTo(S, n - 1)
       IN  shorter \cup {Append(q, x) : q \in shorter, x \in S}

Tokens ==
  { <<"G", "0", "0">>, <<"G", "0", "1">>, <<"S", "1", "2">>,
    <<"S", "1", ".", "5">>, <<"F", "0", ".", "5">>, <<"F", "Q">>,
    <<"T">>, <<"S">>, <<"F">>, <<"T", "1", "2">>, <<"X", "1">>, <<"X", "2">>,
    <<"Y", "-", "2">>, <<"Z", "1", ".", "5">>, <<"X">>,
    <<"Q", "3">>, <<"N", "9">>, << >> }

\* One command line: a line number and up to MaxToks + 1 further tokens
TokenLines ==
  {Raw(<<<<"N", "1">>>> \o toks) : toks \in SeqsUpTo(Tokens, MaxToks + 1)}

SampleLines ==
  { <<"\n">>,
    <<" ", " ", "\n">>,
    <<"(", "c", ")", "\n">>,
    <<"O", "1", "2", "3", "4", "\n">>,
    <<"O", "1", "2", "3", "\n">>,
    <<"%", "\n">>,
    Raw(<<<<"N", "1">>, <<"G", "9", "0">>>>),
    Raw(<<<<"N", "2">>, <<"G", "0", "0">>,
          <<"X", "1", "0", ".", "0", "0", "0">>,
          <<"Y", "5", ".", "0", "0", "0">>>>),
    Raw(<<<<"N", "3">>, <<"G", "0", "1">>, <<"X", "1", ".", "5">>>>),
    Raw(<<<<"N", "4">>, <<"M", "0", "6">>, <<"T", "1", "2">>>>),
    Raw(<<<<"N", "5">>, <<"S", "1", "2", "0", "0">>,
          <<"F", "0", ".", "5">>>>),
    Raw(<<<<"N", "6">>, <<"G", "0", "1">>, <<"X", "1">>, <<"Y", "2">>,
          <<"Q", "3">>>>),
    Raw(<<<<"N", "7">>, <<"Z", "Z", "Z">>>>),
    Raw(<<<<"N", "8">>, <<"G", "9", "9">>>>),
    Raw(<<<<"N", "9">>, <<"G", "0", "1">>, <<"X", "1">>, <<"Y", "2">>,
          <<"N", "9">>, <<"G", "0", "1">>>>),
    Raw(<<<<"N", "1", "0">>, <<"M", "0", "9">>, <<"G", "1", "7">>,
          <<"G", "2", "8">>, <<"X", "1">>>>),
    Raw(<<<<"N", "1", "2">>, <<"S", "1", "2", "0", "0">>,
          <<"G", "9", "9">>, <<"M", "0", "9">>>>),
    Raw(<<<<"G", "9", "0">>, <<"G", "9", "1">>>>),
    <<" ">> \o Raw(<<<<"N", "1", "1">>, << >>, <<"G", "9", "0">>, << >>>>) }

\* The contents of the file: one generated command line, or up to
\* MaxLines lines of the samples
Files ==
  {<<l>> : l \in TokenLines} \cup (SeqsUpTo(SampleLines, MaxLines) \ {<< >>})

(***************************************************************************)
(* The state of one call of parse_gcode.                                   *)
(***************************************************************************)
VARIABLES
  lines,     \* what read_gcode returned
  idx,       \* how many raw lines _non_empty_lines has consumed
  ln,        \* the counter of enumerate(..., start=1); 0 before the first
  line,      \* the surviving line being processed
  parts,     \* line.split(" ")
  ii,        \* the 0-based cursor into parts
  pc,        \* "for": at the head of the for loop; "while": at the head of
             \* the while loop; "done": returned; "raised": left by an
             \* exception
  invoked,   \* the handler invocations so far: the key the handler was
             \* found under and what it was called with (gcode, ln, args)
  calls,     \* the actuator calls so far
  notices,   \* the notifications printed so far
  err        \* the exception that ended the call, NoErr if none

vars == <<lines, idx, ln, line, parts, ii, pc, invoked, calls, notices, err>>

Init ==
  /\ lines \in Files
  /\ idx = 0
  /\ ln = 0
  /\ line = << >>
  /\ parts = << >>
  /\ ii = 0
  /\ pc = "for"
  /\ invoked = << >>
  /\ calls = << >>
  /\ notices = << >>
  /\ err = NoErr

\* The raw lines the generator would still yield a line for
Pending == {j \in (idx + 1)..Len(lines) : Yielded(strip(lines[j]))}

NextIdx == CHOOSE j \in Pending : \A h \in Pending : j <= h

\* Faulty variant: the cursor is not reset for the new line
NextLine_KeepCursor ==
  /\ pc = "for"
  /\ Pending # {}
  /\ _CMD_PATTERN(strip(lines[NextIdx]))
  /\ idx' = NextIdx
  /\ ln' = ln + 1
  /\ line' = strip(lines[NextIdx])
  /\ parts' = split(strip(lines[NextIdx]))
  /\ ii' = ii
  /\ pc' = "while"
  /\ UNCHANGED <<lines, invoked, calls, notices, err>>

\* The for loop takes the next surviving line, which passes the check of
\* its shape, and splits it
NextLine ==
  /\ pc = "for"
  /\ Pending # {}
  /\ _CMD_PATTERN(strip(lines[NextIdx]))
  /\ idx' = NextIdx
  /\ ln' = ln + 1
  /\ line' = strip(lines[NextIdx])
  /\ parts' = split(strip(lines[NextIdx]))
  /\ ii' = 0
  /\ pc' = "while"
  /\ UNCHANGED <<lines, invoked, calls, notices, err>>

\* The for loop takes the next surviving line, which fails the check of
\* its shape
BadLine ==
  /\ pc = "for"
  /\ Pending # {}
  /\ ~_CMD_PATTERN(strip(lines[NextIdx]))
  /\ idx' = NextIdx
  /\ ln' = ln + 1
  /\ line' = strip(lines[NextIdx])
  /\ err' = Error("RuntimeError", "Expected a command starting with 'N*'",
                  <<ln + 1>>, << >>)
  /\ pc' = "raised"
  /\ UNCHANGED <<lines, parts, ii, invoked, calls, notices>>

\* The generator is exhausted: parse_gcode returns
EndOfInput ==
  /\ pc = "for"
  /\ Pending = {}
  /\ idx' = Len(lines)
  /\ pc' = "done"
  /\ UNCHANGED <<lines, ln, line, parts, ii, invoked, calls, notices, err>>

\* The while loop ends
LineDone ==
  /\ pc = "while"
  /\ ~(ii < Len(parts))
  /\ pc' = "for"
  /\ UNCHANGED <<lines, idx, ln, line, parts, ii, invoked, calls, notices,
                 err>>

\* Skip possible line numbers
SkipN ==
  /\ pc = "while"
  /\ ii < Len(parts)
  /\ startswith(parts[ii + 1], "N")
  /\ ii' = ii + 1
  /\ UNCHANGED <<lines, idx, ln, line, parts, pc, invoked, calls, notices,
                 err>>

\* The token has no key, or a key that is not registered
UnknownCode ==
  /\ pc = "while"
  /\ ii < Len(parts)
  /\ ~startswith(parts[ii + 1], "N")
  /\ LET next_part == parts[ii + 1]
         key == KeyOf(next_part)
     IN  /\ key = None \/ key \notin DOMAIN _KNOWN_COMMANDS
         /\ err' = Error("RuntimeError", "Unknown code", <<ln>>,
                         <<next_part>>)
  /\ pc' = "raised"
  /\ UNCHANGED <<lines, idx, ln, line, parts, ii, invoked, calls, notices>>

\* Faulty variant: a handler's error undoes the calls made so far
Dispatch_Rollback ==
  /\ pc = "while"
  /\ ii < Len(parts)
  /\ ~startswith(parts[ii + 1], "N")
  /\ LET next_part == parts[ii + 1]
         key == KeyOf(next_part)
     IN  /\ ~(key = None \/ key \notin DOMAIN _KNOWN_COMMANDS)
         /\ LET cmd == _KNOWN_COMMANDS[key]
                args == extract_args(Slice(parts, ii + 1), cmd.n_args)
                res == Invoke(cmd.fn, next_part, ln, args)
            IN  /\ invoked' = Append(invoked,
                                     [key |-> key, gcode |-> next_part,
                                      ln |-> ln, args |-> args])
                /\ calls' = IF res.err # NoErr THEN << >>
                                               ELSE calls \o res.calls
                /\ notices' = notices \o res.notices
                /\ err' = res.err
                /\ IF res.err # NoErr
                   THEN pc' = "raised" /\ ii' = ii
                   ELSE pc' = "while" /\ ii' = ii + Len(args) + 1
  /\ UNCHANGED <<lines, idx, ln, line, parts>>

\* Faulty variant: ii += 1, the arguments are not stepped over
Advance_One(i, args) == i + 1

\* ii += len(args) + 1
Advance(i, args) == i + Len(args) + 1

\* The token's command is looked up, its arguments are extracted and its
\* handler runs
Dispatch ==
  /\ pc = "while"
  /\ ii < Len(parts)
  /\ ~startswith(parts[ii + 1], "N")
  /\ LET next_part == parts[ii + 1]
         key == KeyOf(next_part)
     IN  /\ ~(key = None \/ key \notin DOMAIN _KNOWN_COMMANDS)
         /\ LET cmd == _KNOWN_COMMANDS[key]
                args == extract_args(Slice(parts, ii + 1), cmd.n_args)
                res == Invoke(cmd.fn, next_part, ln, args)
            IN  /\ invoked' = Append(invoked,
                                     [key |-> key, gcode |-> next_part,
                                      ln |-> ln, args |-> args])
                /\ calls' = calls \o res.calls
                /\ notices' = notices \o res.notices
                /\ err' = res.err
                /\ IF res.err # NoErr
                   THEN pc' = "raised" /\ ii' = ii
                   ELSE pc' = "while" /\ ii' = Advance(ii, args)
  /\ UNCHANGED <<lines, idx, ln, line, parts>>

Next ==
  \/ NextLine
  \/ BadLine
  \/ EndOfInput
  \/ LineDone
  \/ SkipN
  \/ UnknownCode
  \/ Dispatch

Spec == Init /\ [][Next]_vars

TypeOK ==
  /\ pc \in {"for", "while", "done", "raised"}
  /\ ii \in 0..Len(parts)
  /\ idx \in 0..Len(lines)
  /\ (pc = "raised") = (err # NoErr)

(***************************************************************************)
(* Properties.                                                             *)
(***************************************************************************)
Last(q) == q[Len(q)]

\* This step invokes a handler
Invokes == Len(invoked') = Len(invoked) + 1

\* The token under the cursor
AtToken == pc = "while" /\ ii < Len(parts)

\* The tokens after the one under the cursor
Remaining == [k \in 1..(Len(parts) - ii - 1) |-> parts[ii + 1 + k]]

\* A token that looks like the start of a new command: N, G, M, S or F
\* followed by a digit
LooksLikeNewCommand(t) ==
  /\ Len(t) >= 2
  /\ t[1] \in {"N", "G", "M", "S", "F"}
  /\ t[2] \in {"0", "1", "2", "3", "4", "5", "6", "7", "8", "9"}

\* args is the longest prefix of rest that is no longer than n and has no
\* token that looks like a new command
LongestArgPrefix(args, rest, n) ==
  /\ Len(args) <= Len(rest)
  /\ Len(args) <= n
  /\ \A k \in 1..Len(args) : args[k] = rest[k] /\ ~LooksLikeNewCommand(rest[k])
  /\ (Len(args) < Len(rest) /\ Len(args) < n)
       => LooksLikeNewCommand(rest[Len(args) + 1])

\* C1: the arguments a handler is invoked with are exactly the longest
\* prefix of the tokens after the command token that is at most
\* min(len(parts), max_n_args) long and has no token matching the
\* new-command-start pattern; the tokens X1 Y2 N9 G01 with arity 3 give
\* X1 Y2.
C1_ExtractArgs ==
  [][Invokes =>
       LET h == Last(invoked')
           n == _KNOWN_COMMANDS[h.key].n_args
       IN  /\ LongestArgPrefix(h.args, Remaining, n)
           /\ (/\ n = 3
               /\ Remaining = << <<"X", "1">>, <<"Y", "2">>, <<"N", "9">>,
                                 <<"G", "0", "1">> >>)
                => h.args = << <<"X", "1">>, <<"Y", "2">> >>]_vars

\* The scan stopped at N9 with two of the three slots filled
C1_Witness ==
  /\ pc = "while"
  /\ invoked # << >>
  /\ Last(invoked).key = <<"G", "0", "1">>
  /\ Last(invoked).args = << <<"X", "1">>, <<"Y", "2">> >>
  /\ ii + 1 < Len(parts)
  /\ parts[ii + 1] = <<"N", "9">>
  /\ parts[ii + 2] = <<"G", "0", "1">>

\* S followed by an integer literal, F followed by a float literal
IsSpeedToken(t) ==
  /\ Len(t) >= 2
  /\ t[1] = "S"
  /\ \A k \in 2..Len(t) : t[k] \in Digits

IsFeedToken(t) == Len(t) >= 2 /\ t[1] = "F" /\ float(Slice(t, 1)).ok

\* The two tokens before the cursor are S<int> F<float>: the last two
\* handler invocations and actuator calls are theirs, in that order
SpeedThenFeed ==
  (/\ pc = "while"
   /\ ii >= 2
   /\ IsSpeedToken(parts[ii - 1])
   /\ IsFeedToken(parts[ii]))
    => /\ Len(invoked) >= 2
       /\ invoked[Len(invoked) - 1] =
            [key |-> <<"S">>, gcode |-> parts[ii - 1], ln |-> ln,
             args |-> << >>]
       /\ invoked[Len(invoked)] =
            [key |-> <<"F">>, gcode |-> parts[ii], ln |-> ln, args |-> << >>]
       /\ Len(calls) >= 2
       /\ calls[Len(calls) - 1] =
            Call("set_spindle_speed", <<int(Slice(parts[ii - 1], 1)).v>>)
       /\ calls[Len(calls)] =
            Call("set_feed_rate", <<float(Slice(parts[ii], 1)).v>>)

\* C2: within a line handlers are invoked in left-to-right token order:
\* a handler is invoked once per step, with the token under the cursor,
\* the line number and the extracted arguments, the cursor then moves to
\* i + 1 + len(arguments) and never moves back; S<int> F<float> issues
\* set_spindle_speed then set_feed_rate, each with no arguments.
C2_DispatchOrder ==
  /\ [][/\ (invoked' # invoked) =>
             /\ AtToken
             /\ invoked' = Append(invoked,
                                  [key |-> Last(invoked').key,
                                   gcode |-> parts[ii + 1],
                                   ln |-> ln,
                                   args |-> Last(invoked').args])
        /\ (Invokes /\ err' = NoErr) =>
             /\ pc' = "while"
             /\ parts' = parts
             /\ ii' = ii + 1 + Len(Last(invoked').args)
        /\ (ln' = ln) => ii' >= ii]_vars
  /\ []SpeedThenFeed

C2_Witness ==
  /\ pc = "while"
  /\ parts = << <<"N", "5">>, <<"S", "1", "2", "0", "0">>,
                <<"F", "0", ".", "5">> >>
  /\ ii = 3
  /\ calls = << Call("set_spindle_speed", <<1200>>),
                Call("set_feed_rate", <<Dec(5, 1)>>) >>

\* The key the registry is consulted with: the whole token for G and M,
\* the leading letter for S, T and F, none otherwise
Unresolved == <<"unresolved">>

ResolvedKey(t) ==
  IF Len(t) >= 1 /\ t[1] \in {"G", "M"} THEN t
  ELSE IF Len(t) >= 1 /\ t[1] \in {"S", "T", "F"} THEN <<t[1]>>
  ELSE Unresolved

\* What a step at token t does when t is resolved as ResolvedKey says
ResolvesAsClaimed(t) ==
  LET k == ResolvedKey(t)
  IN  IF k = Unresolved \/ k \notin DOMAIN _KNOWN_COMMANDS
      THEN /\ pc' = "raised"
           /\ err' = Error("RuntimeError", "Unknown code", <<ln>>, <<t>>)
           /\ invoked' = invoked
           /\ calls' = calls
      ELSE /\ Invokes
           /\ Last(invoked').key = k
           /\ Last(invoked').gcode = t

\* C3 as stated: every token at a command position is resolved, a token
\* that starts with none of G, M, S, T, F is unresolved and aborts the
\* parse with the unknown-code error.
C3_Original == [][AtToken => ResolvesAsClaimed(parts[ii + 1])]_vars

\* C3, amended: a token at a command position that does not start with
\* N is resolved as stated (G, M: the whole token; S, T, F: the leading
\* letter; otherwise unresolved), and an unresolved or unregistered key
\* aborts the parse with the unknown-code error, which reports the token
\* and the line number, without invoking a handler; a token that starts
\* with N is skipped.
C3_Resolution ==
  [][AtToken =>
       IF Len(parts[ii + 1]) >= 1 /\ parts[ii + 1][1] = "N"
       THEN ii' = ii + 1 /\ pc' = "while" /\ err' = NoErr
            /\ invoked' = invoked
       ELSE ResolvesAsClaimed(parts[ii + 1])]_vars

\* G99 is not registered: the parse stopped at it
C3_Witness ==
  /\ pc = "raised"
  /\ ii < Len(parts)
  /\ parts[ii + 1] = <<"G", "9", "9">>
  /\ err = Error("RuntimeError", "Unknown code", <<ln>>,
                 << <<"G", "9", "9">> >>)

\* A trimmed line the classifier keeps
Survives(s) ==
  /\ s # << >>
  /\ ~(Len(s) >= 2 /\ s[1] = "(" /\ s[Len(s)] = ")")
  /\ ~(/\ Len(s) = 5
       /\ s[1] = "O"
       /\ \A k \in 2..5 : s[k] \in Digits)
  /\ s # <<"%">>

Survivors(n) == {j \in 1..n : Survives(strip(lines[j]))}

\* C4: the classifier yields, in order, exactly the trimmed lines that
\* are non-empty, no full-line comment, no program number and not %; the
\* ordinal of a yielded line is the number of surviving lines up to it,
\* whatever skipped lines lie in between.
C4_Classifier ==
  /\ ln = Cardinality(Survivors(idx))
  /\ (ln > 0 /\ pc # "done")
       => /\ idx \in Survivors(idx)
          /\ line = strip(lines[idx])
  /\ (pc = "done") => ln = Cardinality(Survivors(Len(lines)))

\* A surviving line after a skipped one
C4_Witness ==
  /\ pc = "while"
  /\ ln = 1
  /\ idx = 2
  /\ ~Survives(strip(lines[1]))

\* A motion command token, an argument naming an axis, a float literal
IsMotion(t) == t \in {<<"G", "0", "0">>, <<"G", "0", "1">>}

NamesAxis(a) == Len(a) >= 1 /\ a[1] \in {"X", "Y", "Z"}

HasFloat(a) == float(Slice(a, 1)).ok

\* A handler invocation of a motion command with two or three arguments
MultiArgMotion(h) == IsMotion(h.gcode) /\ Len(h.args) \in {2, 3}

\* C5: a motion command with two or three arguments, one of which does
\* not start with X, Y or Z, aborts the parse with the unknown-parameter
\* error, which cites that argument and the line number, and issues no
\* move.  Stated for arguments that all have a numeric suffix, so that no
\* other error competes with this one.
C5_UnknownParameter ==
  [][(/\ Invokes
      /\ MultiArgMotion(Last(invoked'))
      /\ \A k \in 1..Len(Last(invoked').args) :
           HasFloat(Last(invoked').args[k])
      /\ \E k \in 1..Len(Last(invoked').args) :
           ~NamesAxis(Last(invoked').args[k]))
       => /\ pc' = "raised"
          /\ err'.exc = "RuntimeError"
          /\ err'.msg = "Unknown parameter"
          /\ err'.lns = <<ln>>
          /\ \E k \in 1..Len(Last(invoked').args) :
               /\ ~NamesAxis(Last(invoked').args[k])
               /\ err'.cites[1] = Last(invoked').args[k]
          /\ calls' = calls]_vars

\* The coarse shape of a command line: N, digits, a white space
HasLineNumber(s) ==
  \E n \in 1..Len(s) :
    /\ Len(s) >= n + 2
    /\ s[1] = "N"
    /\ \A k \in 2..(n + 1) : s[k] \in Digits
    /\ s[n + 2] \in {" ", "\t"}

StructuralError(n) ==
  Error("RuntimeError", "Expected a command starting with 'N*'", <<n>>,
        << >>)

LineN7ZZZ == <<"N", "7", " ", "Z", "Z", "Z">>

\* C6 as stated: the line N7 ZZZ is rejected with the structural error,
\* citing its line number, before it is tokenized.
C6_Original ==
  (line = LineN7ZZZ) => (pc = "raised" /\ err = StructuralError(ln))

\* C6, amended: the line N7 ZZZ passes the coarse line-shape check; it is
\* tokenized, N7 is skipped, and the parse is aborted at ZZZ with the
\* unknown-code error, which cites ZZZ and the line number; no handler is
\* invoked for the line.
C6_UnknownCode ==
  (line = LineN7ZZZ) =>
    /\ parts = << <<"N", "7">>, <<"Z", "Z", "Z">> >>
    /\ \/ pc = "while" /\ ii \in {0, 1} /\ err = NoErr
       \/ /\ pc = "raised"
          /\ ii = 1
          /\ err = Error("RuntimeError", "Unknown code", <<ln>>,
                         << <<"Z", "Z", "Z">> >>)
    /\ \A k \in 1..Len(invoked) : invoked[k].ln # ln

C6_Witness == line = LineN7ZZZ /\ pc = "raised"

\* invoked lists the lines in the order of their numbers
InLineOrder ==
  \A j, k \in 1..Len(invoked) : j <= k => invoked[j].ln <= invoked[k].ln

\* C7: lines are processed in classified order, the step in which a fatal
\* error occurs makes no actuator call, and after it no step is taken: no
\* handler and no actuator call for the rest of the line or any later
\* line.
C7_FailStop ==
  /\ [][/\ (err' # NoErr) => (pc' = "raised" /\ calls' = calls)
        /\ (err # NoErr) => (invoked' = invoked /\ calls' = calls)
        /\ (ln' # ln) =>
             /\ ln' = ln + 1
             /\ idx' > idx
             /\ Survivors(idx') = Survivors(idx) \cup {idx'}]_vars
  /\ [](pc = "raised" => ~ENABLED Next)
  /\ []InLineOrder

\* A fatal error after an actuator call, with tokens left on the line and
\* a surviving line left in the file
C7_Witness ==
  /\ pc = "raised"
  /\ calls # << >>
  /\ ii + 1 < Len(parts)
  /\ \E j \in (idx + 1)..Len(lines) : Survives(strip(lines[j]))

\* The first argument of a motion command that the handler cannot use
BadArg(a) == ~NamesAxis(a) \/ ~HasFloat(a)

FirstBadArg(args) ==
  args[CHOOSE k \in 1..Len(args) :
         BadArg(args[k]) /\ \A j \in 1..(k - 1) : ~BadArg(args[j])]

\* The raw token that caused the error of a line that was tokenized
Culprit ==
  IF /\ IsMotion(parts[ii + 1])
     /\ invoked # << >>
     /\ \E k \in 1..Len(Last(invoked).args) : BadArg(Last(invoked).args[k])
  THEN FirstBadArg(Last(invoked).args)
  ELSE parts[ii + 1]

\* C8: every fatal error carries the number of the failing line and,
\* where a token caused it, that token, also for a bare T, S or F.
C8_ErrorsCarryLineAndToken ==
  (pc = "raised") =>
    /\ err.lns = <<ln>>
    /\ HasLineNumber(line) => \E k \in 1..Len(err.cites) : err.cites[k] = Culprit

\* The handler invoked as h fails to parse a numeric value; the token
\* whose suffix is no number
NumericFailure(h) ==
  \/ h.key = <<"F">> /\ ~HasFloat(h.gcode)
  \/ h.key = <<"S">> /\ ~int(Slice(h.gcode, 1)).ok
  \/ /\ IsMotion(h.gcode)
     /\ \E k \in 1..Len(h.args) : BadArg(h.args[k])
     /\ NamesAxis(FirstBadArg(h.args))

Malformed(h) == IF IsMotion(h.gcode) THEN FirstBadArg(h.args) ELSE h.gcode

\* C9: a handler that fails to parse a numeric value ends the parse with
\* a malformed-value error, of another kind than the unknown-code error,
\* which carries the line number and the offending token; no actuator
\* call is made for the command.
C9_MalformedValue ==
  [][(Invokes /\ NumericFailure(Last(invoked')))
       => /\ pc' = "raised"
          /\ err'.exc = "ValueError"
          /\ err'.exc # "RuntimeError"
          /\ err'.lns = <<ln>>
          /\ \E k \in 1..Len(err'.cites) :
               err'.cites[k] = Malformed(Last(invoked'))
          /\ calls' = calls]_vars

\* A motion invocation with two or three arguments that all name an axis
\* and have a float
GoodMultiArgMotion(h) ==
  /\ MultiArgMotion(h)
  /\ \A k \in 1..Len(h.args) : NamesAxis(h.args[k]) /\ HasFloat(h.args[k])

Naming(args, axis) == {k \in 1..Len(args) : args[k][1] = axis}

\* v is the value of every argument that names the axis, 0.0 if none does
ValueOfEach(args, axis, v) ==
  IF Naming(args, axis) = {} THEN v = Zero
  ELSE \A k \in Naming(args, axis) : v = float(Slice(args[k], 1)).v

\* v is the value of the last argument that names the axis, 0.0 if none
\* does
ValueOfLast(args, axis, v) ==
  IF Naming(args, axis) = {} THEN v = Zero
  ELSE LET k == CHOOSE j \in Naming(args, axis) :
                  \A h \in Naming(args, axis) : h <= j
       IN  v = float(Slice(args[k], 1)).v

\* C10 as stated: such a motion command issues exactly one move, in which
\* each axis named by an argument has that argument's value and every
\* other axis is 0.0.
C10_Original ==
  [][(Invokes /\ GoodMultiArgMotion(Last(invoked')))
       => /\ Len(calls') = Len(calls) + 1
          /\ calls' = Append(calls, Last(calls'))
          /\ Last(calls').op = "move"
          /\ ValueOfEach(Last(invoked').args, "X", Last(calls').args[1])
          /\ ValueOfEach(Last(invoked').args, "Y", Last(calls').args[2])
          /\ ValueOfEach(Last(invoked').args, "Z", Last(calls').args[3])]_vars

\* C10, amended: such a motion command issues exactly one move, in which
\* each axis named by an argument has the value of the last argument
\* naming it and every other axis is 0.0; G00 X10.000 Y5.000 issues
\* move(10.0, 5.0, 0.0).
C10_Move ==
  [][(Invokes /\ GoodMultiArgMotion(Last(invoked')))
       => /\ Len(calls') = Len(calls) + 1
          /\ calls' = Append(calls, Last(calls'))
          /\ Last(calls').op = "move"
          /\ Len(Last(calls').args) = 3
          /\ ValueOfLast(Last(invoked').args, "X", Last(calls').args[1])
          /\ ValueOfLast(Last(invoked').args, "Y", Last(calls').args[2])
          /\ ValueOfLast(Last(invoked').args, "Z", Last(calls').args[3])
          /\ (Last(invoked').args =
                << <<"X", "1", "0", ".", "0", "0", "0">>,
                   <<"Y", "5", ".", "0", "0", "0">> >>)
               => Last(calls') =
                    Call("move", <<Dec(10, 0), Dec(5, 0), Dec(0, 0)>>)
          /\ err' = NoErr]_vars

C10_Witness ==
  /\ invoked # << >>
  /\ Last(invoked).gcode = <<"G", "0", "0">>
  /\ Last(invoked).args = << <<"X", "1", "0", ".", "0", "0", "0">>,
                             <<"Y", "5", ".", "0", "0", "0">> >>
  /\ calls # << >>
  /\ Last(calls) = Call("move", <<[m |-> 10, e |-> 0], [m |-> 5, e |-> 0],
                                  [m |-> 0, e |-> 0]>>)

\* A handler invocation of a motion command with exactly one argument
OneArgMotion(h) == IsMotion(h.gcode) /\ Len(h.args) = 1

SingleAxisOp(a) ==
  CASE a[1] = "X" -> "move_x" [] a[1] = "Y" -> "move_y" [] a[1] = "Z" -> "move_z"

\* C11: a motion command with exactly one argument issues exactly one
\* single-axis move, on the axis its leading letter names and with its
\* float value, and never the three-axis move; a leading letter other
\* than X, Y, Z is a fatal error without an actuator call; G01 X1.5 moves
\* X to 1.5.
C11_SingleAxis ==
  [][(Invokes /\ OneArgMotion(Last(invoked'))) =>
       LET a == Last(invoked').args[1]
       IN  /\ (NamesAxis(a) /\ HasFloat(a)) =>
                /\ err' = NoErr
                /\ calls' = Append(calls,
                                   Call(SingleAxisOp(a),
                                        <<float(Slice(a, 1)).v>>))
           /\ (~NamesAxis(a)) =>
                /\ pc' = "raised"
                /\ err' # NoErr
                /\ calls' = calls
           /\ \A k \in 1..Len(calls') : k > Len(calls) => calls'[k].op # "move"
           /\ (a = <<"X", "1", ".", "5">>) =>
                calls' = Append(calls, Call("move_x", <<[m |-> 15, e |-> 1]>>))]_vars

C11_Witness ==
  /\ invoked # << >>
  /\ Last(invoked).gcode = <<"G", "0", "1">>
  /\ Last(invoked).args = << <<"X", "1", ".", "5">> >>
  /\ calls # << >>
  /\ Last(calls) = Call("move_x", <<[m |-> 15, e |-> 1]>>)

LineM06T12 == <<"N", "4", " ", "M", "0", "6", " ", "T", "1", "2">>

\* The actuator calls this step adds
NewCalls == {k \in 1..Len(calls') : k > Len(calls)}

\* C12: every tool name passed to change_tool is what follows the letter
\* T of the tool token under the cursor; for the line N4 M06 T12 the
\* tool-change action is invoked with "12", and with no other name.
C12_ToolName ==
  /\ [][\A k \in NewCalls :
          (calls'[k].op = "change_tool") =>
            /\ AtToken
            /\ Len(parts[ii + 1]) >= 1
            /\ parts[ii + 1][1] = "T"
            /\ calls'[k].args = <<Tail(parts[ii + 1])>>
            /\ (line = LineM06T12) => calls'[k].args = << <<"1", "2">> >>]_vars
  /\ []((line = LineM06T12 /\ pc = "for")
          => (calls # << >>
              /\ Last(calls) = Call("change_tool", << <<"1", "2">> >>)))

TokenG28 == <<"G", "2", "8">>

HomeCall == Call("home", << >>)

\* C13 as stated: dispatching G28 issues exactly one home() call and
\* consumes no following token: the cursor advances by exactly 1.
C13_Original ==
  [][(Invokes /\ Last(invoked').gcode = TokenG28)
       => /\ calls' = Append(calls, HomeCall)
          /\ Last(invoked').args = << >>
          /\ ii' = ii + 1]_vars

\* C13, amended: dispatching G28 issues exactly one home() call; up to
\* three following tokens that do not match the new-command-start pattern
\* are consumed as its arguments, which home() ignores, and the cursor
\* advances by 1 plus their number.
C13_Home ==
  [][(Invokes /\ Last(invoked').gcode = TokenG28)
       => /\ calls' = Append(calls, HomeCall)
          /\ err' = NoErr
          /\ LongestArgPrefix(Last(invoked').args, Remaining, 3)
          /\ ii' = ii + 1 + Len(Last(invoked').args)]_vars

\* G28 has taken the X1 that follows it
C13_Witness ==
  /\ invoked # << >>
  /\ Last(invoked).gcode = TokenG28
  /\ Last(invoked).args = << <<"X", "1">> >>
  /\ calls # << >>
  /\ Last(calls) = HomeCall
  /\ ii = Len(parts)

\* C14: the token sequence the dispatch loop iterates over contains no
\* empty token, also when the line holds consecutive spaces.
C14_NoEmptyToken ==
  (pc = "while") => \A k \in 1..Len(parts) : parts[k] # << >>

\* What a run has issued and how it ended
Outcome(cs, e) == [calls |-> cs, err |-> e]

\* The while loop of parse_gcode over the tokens ps of line number n, from
\* cursor i on, as one computation; acc is what was issued before
RECURSIVE LineRun(_, _, _, _)
LineRun(ps, i, n, acc) ==
  IF ~(i < Len(ps)) THEN Outcome(acc, NoErr)
  ELSE IF startswith(ps[i + 1], "N") THEN LineRun(ps, i + 1, n, acc)
  ELSE LET key == KeyOf(ps[i + 1])
       IN  IF key = None \/ key \notin DOMAIN _KNOWN_COMMANDS
           THEN Outcome(acc, Error("RuntimeError", "Unknown code", <<n>>,
                                   <<ps[i + 1]>>))
           ELSE LET cmd == _KNOWN_COMMANDS[key]
                    args == extract_args(Slice(ps, i + 1), cmd.n_args)
                    res == Invoke(cmd.fn, ps[i + 1], n, args)
                IN  IF res.err # NoErr
                    THEN Outcome(acc \o res.calls, res.err)
                    ELSE LineRun(ps, i + Len(args) + 1, n,
                                 acc \o res.calls)

\* parse_gcode over the raw lines ls from the j-th on, n surviving lines
\* having been counted, as one computation
RECURSIVE FileRun(_, _, _, _)
FileRun(ls, j, n, acc) ==
  IF j > Len(ls) THEN Outcome(acc, NoErr)
  ELSE IF ~Yielded(strip(ls[j])) THEN FileRun(ls, j + 1, n, acc)
  ELSE IF ~_CMD_PATTERN(strip(ls[j]))
  THEN Outcome(acc, StructuralError(n + 1))
  ELSE LET r == LineRun(split(strip(ls[j])), 0, n + 1, acc)
       IN  IF r.err # NoErr THEN r ELSE FileRun(ls, j + 1, n + 1, r.calls)

\* The outcome of a parse call of its own on the raw lines ls
TraceOf(ls) == FileRun(ls, 1, 0, << >>)

\* The raw lines consumed so far
Consumed == SubSeq(lines, 1, idx)

\* C15: no state is carried across lines: however the lines parsed so far
\* without error are cut in two sequences A and B that each parse without
\* error, the actuator calls issued are the calls of a parse of A alone
\* followed by the calls of a parse of B alone.
C15_Stateless ==
  (pc \in {"for", "done"} /\ err = NoErr) =>
    \A k \in 0..idx :
      LET A == TraceOf(SubSeq(lines, 1, k))
          B == TraceOf(SubSeq(lines, k + 1, idx))
      IN  (A.err = NoErr /\ B.err = NoErr) => calls = A.calls \o B.calls

\* Two lines that each issued calls have been parsed without error
C15_Witness ==
  /\ pc = "done"
  /\ err = NoErr
  /\ \E k \in 1..(idx - 1) :
       /\ TraceOf(SubSeq(lines, 1, k)).err = NoErr
       /\ TraceOf(SubSeq(lines, 1, k)).calls # << >>
       /\ TraceOf(SubSeq(lines, k + 1, idx)).err = NoErr
       /\ TraceOf(SubSeq(lines, k + 1, idx)).calls # << >>

LineG90G91 == <<"G", "9", "0", " ", "G", "9", "1">>

\* No handler has been invoked for the current line
NothingDispatched == \A k \in 1..Len(invoked) : invoked[k].ln # ln

\* The current line has been rejected for its shape
Rejected == pc = "raised" /\ err = StructuralError(ln)

\* C16 as stated: the leading N-number token is optional, so the line
\* G90 G91 is not rejected with a structural error; a line that fails the
\* check is rejected citing its line number before any token is
\* dispatched.
C16_Original ==
  /\ (line = LineG90G91) => ~Rejected
  /\ (ln > 0 /\ err.msg = StructuralError(ln).msg)
       => (Rejected /\ NothingDispatched)

\* C16, amended: the leading N-number token is required: a surviving line
\* is rejected with the structural error, citing its line number, before
\* any of its tokens is dispatched, exactly when it does not start with N,
\* one or more digits and a whitespace character; G90 G91 is rejected.
C16_LineShape ==
  /\ (ln > 0 /\ ~HasLineNumber(line)) => (Rejected /\ NothingDispatched)
  /\ (ln > 0 /\ HasLineNumber(line)) => err.msg # StructuralError(ln).msg
  /\ (ln > 0 /\ err.msg = StructuralError(ln).msg)
       => (Rejected /\ NothingDispatched)
  /\ (line = LineG90G91) => Rejected

\* G90 G91 has been rejected after an earlier line was dispatched
C16_Witness ==
  /\ line = LineG90G91
  /\ Rejected
  /\ NothingDispatched
  /\ invoked # << >>

\* The handler invocations of the current line
OnLine == SelectSeq(invoked, LAMBDA h : h.ln = ln)

\* A step of the while loop that leaves the parse in the loop
LoopStep == pc = "while" /\ pc' = "while"

\* C17: while a line is processed 0 <= ii <= len(tokens); every loop step
\* increases ii, by 1 for a skipped N token and by 1 plus the number of
\* extracted arguments for a command; the loop is left only with ii equal
\* to len(tokens) or by a fatal error. With every step raising ii by at
\* least 1 from 0 and ii never above len(tokens), a line is left after at
\* most len(tokens) loop steps; the handlers run for the line are never
\* more than the tokens passed.
C17_Cursor ==
  /\ []((pc \in {"while", "raised"}) => (0 <= ii /\ ii <= Len(parts)))
  /\ [][/\ (pc # "while" /\ pc' = "while") => ii' = 0
        /\ LoopStep => ii' > ii
        /\ (LoopStep /\ ~Invokes) =>
             (startswith(parts[ii + 1], "N") /\ ii' = ii + 1)
        /\ (LoopStep /\ Invokes) =>
             ii' = ii + 1 + Len(Last(invoked').args)
        /\ (pc = "while" /\ pc' # "while") =>
             \/ pc' = "for" /\ ii = Len(parts) /\ ii' = ii /\ err' = NoErr
             \/ pc' = "raised" /\ err' # NoErr /\ ii' = ii]_vars
  /\ []((pc = "while") => Len(OnLine) <= ii)
  /\ []((pc = "raised") => Len(OnLine) <= ii + 1)

\* A line was left with the cursor at its end after a skipped N token and
\* a command that took an argument
C17_Witness ==
  /\ pc = "for"
  /\ ln > 0
  /\ ii = Len(parts)
  /\ invoked # << >>
  /\ Last(invoked).ln = ln
  /\ Len(Last(invoked).args) >= 1
  /\ \E k \in 1..Len(parts) : k > 1 /\ startswith(parts[k], "N")

\* The tokens ps from cursor i on are accounted for by the handler
\* invocations hs, in order: a token at a command position either starts
\* with N and has no invocation, or is the command of the next invocation,
\* whose arguments are the tokens right after it, no more than the n_args
\* of its registry entry; the next command position is the token after
\* them
RECURSIVE Accounts(_, _, _)
Accounts(ps, i, hs) ==
  IF ~(i < Len(ps)) THEN hs = << >>
  ELSE IF startswith(ps[i + 1], "N") THEN Accounts(ps, i + 1, hs)
  ELSE /\ hs # << >>
       /\ Head(hs).gcode = ps[i + 1]
       /\ Head(hs).key \in DOMAIN _KNOWN_COMMANDS
       /\ Len(Head(hs).args) <= _KNOWN_COMMANDS[Head(hs).key].n_args
       /\ i + 1 + Len(Head(hs).args) <= Len(ps)
       /\ Head(hs).args = SubSeq(ps, i + 2, i + 1 + Len(Head(hs).args))
       /\ Accounts(ps, i + 1 + Len(Head(hs).args), Tail(hs))

\* C18: on a line processed without error every token is exactly one of a
\* token starting with N skipped at a command position, a command token
\* dispatched to one handler, or an argument passed to the handler of the
\* nearest preceding command token; no handler gets more arguments than
\* the n_args of its registry entry.
C18_TokenAccounting ==
  /\ (pc = "while" /\ err = NoErr) =>
       Accounts(SubSeq(parts, 1, ii), 0, OnLine)
  /\ (pc = "for" /\ ln > 0 /\ err = NoErr) => Accounts(parts, 0, OnLine)

\* A line with a skipped N token, three commands and an argument has
\* been processed
C18_Witness ==
  /\ pc = "for"
  /\ err = NoErr
  /\ Len(OnLine) >= 3
  /\ \E k \in 1..Len(OnLine) : OnLine[k].args # << >>
  /\ Accounts(parts, 0, OnLine)

\* The outcome of a parse call of its own on the lines before the
\* current one
Earlier == TraceOf(SubSeq(lines, 1, idx - 1))

\* The outcome of the while loop run on its own over the tokens of the
\* current line that precede the cursor; a line rejected for its shape
\* has no tokens
Sooner ==
  IF Rejected THEN Outcome(<< >>, NoErr)
  ELSE LineRun(SubSeq(parts, 1, ii), 0, ln, << >>)

\* C19: when the parse ends with a fatal error at some token, the lines
\* before it and the tokens before it on its line parse without error, and
\* the actuator calls issued are exactly theirs, in order: nothing is held
\* back and nothing is undone.
C19_NoRollback ==
  (pc = "raised") =>
    /\ err # NoErr
    /\ Earlier.err = NoErr
    /\ Sooner.err = NoErr
    /\ calls = Earlier.calls \o Sooner.calls

\* The parse was aborted at a token after calls were issued on an earlier
\* line and earlier on the token's own line
C19_Witness ==
  /\ pc = "raised"
  /\ ~Rejected
  /\ ii < Len(parts)
  /\ err.cites = <<parts[ii + 1]>>
  /\ Earlier.calls # << >>
  /\ Sooner.calls # << >>

TokenG00 == <<"G", "0", "0">>

TokenG01 == <<"G", "0", "1">>

MoveToOrigin == Call("move", <<Zero, Zero, Zero>>)

\* The step runs the handler of a motion command with no argument
BareMotion ==
  /\ Invokes
  /\ IsMotion(Last(invoked').gcode)
  /\ Last(invoked').args = << >>

\* C20: a motion command gets no argument when it ends the line or the
\* next token looks like a new command; it then issues no actuator call
\* only when its token is G00, which notifies of rapid positioning; a G01
\* with no argument issues move(0.0, 0.0, 0.0).
C20_BareMotion ==
  [][BareMotion =>
       /\ Remaining = << >> \/ LooksLikeNewCommand(Remaining[1])
       /\ err' = NoErr
       /\ ii' = ii + 1
       /\ (Last(invoked').gcode = TokenG00) =>
            /\ calls' = calls
            /\ notices' = Append(notices, "Set rapid positioning")
       /\ (Last(invoked').gcode = TokenG01) =>
            /\ calls' = Append(calls, MoveToOrigin)
            /\ notices' = notices
       /\ (calls' = calls) => Last(invoked').gcode = TokenG00]_vars

\* A G01 directly followed by another command has moved to the origin
C20_Witness ==
  /\ pc = "while"
  /\ invoked # << >>
  /\ Last(invoked).gcode = TokenG01
  /\ Last(invoked).args = << >>
  /\ Last(invoked).ln = ln
  /\ calls # << >>
  /\ Last(calls) = MoveToOrigin
  /\ ii < Len(parts)
  /\ parts[ii] = TokenG01
  /\ LooksLikeNewCommand(parts[ii + 1])

====
